---- MODULE Spec2Model ----
(***************************************************************************)
(* Human-in-the-loop approval protocol of the legal due diligence app.    *)
(*                                                                         *)
(* The Decision Client (the zustand store appStore.ts and the React       *)
(* component ApprovalPanel) is modelled from the frontend sources.  The   *)
(* Approval Broker lives in backend/app/middleware/approval.py, which is  *)
(* not among the sources; it is modelled from section 4.3 of the          *)
(* specification.  The two sides are joined by the two FIFO directions of *)
(* the per-session Transport Channel.                                     *)
(***************************************************************************)
EXTENDS Integers, Sequences, FiniteSets, TLC

(***************************************************************************)
(* Bounds of the model.                                                    *)
(***************************************************************************)
\* Number of tool calls the agent proposes in one session.
MaxCalls == 2

\* WebSockets the client creates in a run.
MaxSockets == 2

\* Envelopes the server pushes to the client in a run of the client alone.
MaxMessages == 2
MaxFeed == 3

(***************************************************************************)
(* JSON text.  A text is a sequence of tokens; tool arguments are JSON    *)
(* values: a number, or an object over the single key "arg" kept as a set *)
(* of <<key, number>> pairs.                                               *)
(***************************************************************************)
Keys == {"arg"}
Digits == {"0", "1"}

NumOf(tok) == IF tok = "0" THEN 0 ELSE 1
TokOf(n) == IF n = 0 THEN "0" ELSE "1"

JNum(n) == [t |-> "num", n |-> n, m |-> {}]
JObj(m) == [t |-> "obj", n |-> 0, m |-> m]
JNone == [t |-> "none", n |-> 0, m |-> {}]

\* Whitespace is insignificant to JSON.parse.
SkipWs(s) == SelectSeq(s, LAMBDA tok : tok # "ws")

\* obj[key] = n, the way a JavaScript object takes a repeated key.
PutKey(m, key, n) == {p \in m : p[1] # key} \cup {<<key, n>>}

\* The members of an object after its opening brace, up to the closing one.
\* Returns the parsed pairs and the tokens after the closing brace.
RECURSIVE ParseMembers(_, _)
ParseMembers(s, m) ==
  IF Len(s) >= 4 /\ s[1] \in Keys /\ s[2] = ":" /\ s[3] \in Digits
  THEN LET m2 == PutKey(m, s[1], NumOf(s[3])) IN
       IF s[4] = "}" THEN [ok |-> TRUE, m |-> m2, rest |-> SubSeq(s, 5, Len(s))]
       ELSE IF s[4] = "," THEN ParseMembers(SubSeq(s, 5, Len(s)), m2)
       ELSE [ok |-> FALSE, m |-> {}, rest |-> <<>>]
  ELSE [ok |-> FALSE, m |-> {}, rest |-> <<>>]

\* JSON.parse(text): ok = FALSE stands for the SyntaxError it throws.
JSONParse(text) ==
  LET s == SkipWs(text) IN
  IF Len(s) = 1 /\ s[1] \in Digits
  THEN [ok |-> TRUE, value |-> JNum(NumOf(s[1]))]
  ELSE IF Len(s) = 2 /\ s[1] = "{" /\ s[2] = "}"
  THEN [ok |-> TRUE, value |-> JObj({})]
  ELSE IF Len(s) >= 1 /\ s[1] = "{"
  THEN LET r == ParseMembers(Tail(s), {}) IN
       IF r.ok /\ r.rest = <<>>
       THEN [ok |-> TRUE, value |-> JObj(r.m)]
       ELSE [ok |-> FALSE, value |-> JNone]
  ELSE [ok |-> FALSE, value |-> JNone]

\* JSON.stringify(value, null, 2): one member per line, indented, and "{}"
\* for the empty object.
JSONStringify(v) ==
  IF v.t = "num" THEN <<TokOf(v.n)>>
  ELSE IF v.m = {} THEN <<"{", "}">>
  ELSE LET p == CHOOSE q \in v.m : TRUE IN
       <<"{", "ws", p[1], ":", "ws", TokOf(p[2]), "ws", "}">>

(***************************************************************************)
(* Policy Set.                                                             *)
(***************************************************************************)
\* "Human approval required for": document access, file operations, web
\* research and subagent tasks.
APPROVAL_REQUIRED_TOOLS ==
  {"get_documents", "get_page_text", "get_page_image",
   "write_file", "edit_file",
   "web_search", "web_fetch",
   "analyze_documents", "create_report"}

\* Tools of the agent that the approval list omits.
UngatedTools == {"list_data_room_documents", "write_todos"}

Tools == APPROVAL_REQUIRED_TOOLS \cup UngatedTools

\* Mutant: the policy set names only the document and file tools.
requiresApprovalDataOnly(toolName) ==
  toolName \in {"get_documents", "get_page_text", "get_page_image", "write_file", "edit_file"}

\* Mutant: every tool is gated.
requiresApprovalAlways(toolName) == TRUE

requiresApproval(toolName) == toolName \in APPROVAL_REQUIRED_TOOLS

(***************************************************************************)
(* Protocol data.                                                          *)
(***************************************************************************)
Variants == {"approve", "edit", "reject"}

\* The arguments every proposed call carries, and what a reviewer may turn
\* them into.
OriginalArgs == JObj({<<"arg", 0>>})
RevisedArgs == JObj({<<"arg", 1>>})

NoAction == [name |-> "", args |-> JNone]

\* The decision objects the approval panel builds.
ApproveDecision == [type |-> "approve", reason |-> "", edited_action |-> NoAction]
EditDecision(name, args) ==
  [type |-> "edit", reason |-> "", edited_action |-> [name |-> name, args |-> args]]
RejectDecision(reason) == [type |-> "reject", reason |-> reason, edited_action |-> NoAction]

\* Execution directives handed back to the suspended call.
NoDirective == [kind |-> "none", args |-> JNone, reason |-> ""]
Execute(args) == [kind |-> "execute", args |-> args, reason |-> ""]
Abort(reason) == [kind |-> "abort", args |-> JNone, reason |-> reason]

\* Context Builder: the highlight lists of a call, by the class of its tool.
DocumentHighlightsOf(toolName) ==
  IF toolName = "get_documents"
  THEN <<[doc_id |-> "d1", legally_significant_pages |-> <<1>>]>>
  ELSE <<>>

PageHighlightsOf(toolName) ==
  IF toolName \in {"get_page_text", "get_page_image"}
  THEN <<[doc_id |-> "d1", page_nums |-> <<2>>]>>
  ELSE <<>>

FileHighlightsOf(toolName) ==
  IF toolName = "write_file" THEN <<[file_path |-> "report.md", operation |-> "write"]>>
  ELSE IF toolName = "edit_file" THEN <<[file_path |-> "report.md", operation |-> "edit"]>>
  ELSE <<>>

\* An ApprovalRequest.  agent_reasoning, related_todos and the timestamp are
\* display text that no handler reads, and are left out.
ApprovalRequest(id, toolName, args, allowed) ==
  [request_id |-> id, tool_name |-> toolName, tool_args |-> args,
   allowed_decisions |-> allowed,
   document_highlights |-> DocumentHighlightsOf(toolName),
   page_highlights |-> PageHighlightsOf(toolName),
   file_highlights |-> FileHighlightsOf(toolName)]

\* The request slot of a uiState that is not awaiting approval.
NoRequest ==
  [request_id |-> 0, tool_name |-> "", tool_args |-> JNone, allowed_decisions |-> {},
   document_highlights |-> <<>>, page_highlights |-> <<>>, file_highlights |-> <<>>]

\* The per-tool policy that fills allowed_decisions is configuration of the
\* session: any set of decisions for the document tool, all three for every
\* other gated tool.
PolicyChoices ==
  {[t \in APPROVAL_REQUIRED_TOOLS |-> IF t = "get_documents" THEN a ELSE Variants] :
     a \in SUBSET Variants}

\* The tools the agent proposes under Spec: a document tool, a file tool and
\* an ungated one.  SpecPolicy proposes every tool.
ProtocolTools == {"get_documents", "write_file", "list_data_room_documents"}

VARIABLES
  \* Approval Broker and agent session
  policy,           \* allowed_decisions of every gated tool
  pending,          \* the open PendingApproval entries
  nextRequestId,    \* the next fresh request_id
  calls,            \* the tool calls proposed so far, in order
  resolutions,      \* the Open -> Resolved transitions made, in order
  resolveResult,    \* what the last resolve call returned
  context,          \* the tool results fed back into the agent's context
  sessionStatus,    \* running | completed | failed
  \* Transport Channel
  s2c,              \* server -> client envelopes in flight
  c2s,              \* client -> server envelopes in flight
  \* Decision Client: the store
  sockets,          \* readyState of every WebSocket created by connect
  sessionId,
  ws,               \* index into sockets, 0 for null
  uiState,
  highlightedDocumentIds,
  highlightedPages,
  highlightedFilePaths,
  selectedDocumentId,
  selectedFilePath,
  currentPdfPage,
  selectedDocumentDetail,
  fetches,          \* the document-detail fetches of selectDocument in flight
  todos,
  workflowEvents,
  \* Decision Client: local state of ApprovalPanel
  isEditing,
  editedArgs,
  alert,            \* the alert the last panel handler raised, "" for none
  editOpened,       \* the request the open editor was opened on
  \* History of the client's end of the channel
  received,         \* the envelopes ws.onmessage has handled, in order
  submitted,        \* the submitDecision calls that passed the guard, in order
  consoleError      \* the last console.error of submitDecision, "" for none

brokerVars == <<policy, pending, nextRequestId, calls, resolutions, resolveResult, context,
               sessionStatus>>
channelVars == <<s2c, c2s>>
storeVars == <<sockets, sessionId, ws, uiState, highlightedDocumentIds, highlightedPages,
               highlightedFilePaths, selectedDocumentId>>
panelVars == <<isEditing, editedArgs, alert, editOpened>>
viewVars == <<selectedFilePath, currentPdfPage, selectedDocumentDetail, fetches, todos,
              workflowEvents>>
logVars == <<received, submitted, consoleError>>
vars == <<brokerVars, channelVars, storeVars, panelVars, viewVars, logVars>>

NoPages == [d \in {} |-> {}]

\* What resolve returns to its caller.
Result(request_id, outcome) == [request_id |-> request_id, outcome |-> outcome]

Init ==
  /\ policy \in PolicyChoices
  /\ pending = {}
  /\ nextRequestId = 1
  /\ calls = <<>>
  /\ resolutions = <<>>
  /\ resolveResult = Result(0, "none")
  /\ context = <<>>
  /\ sessionStatus = "running"
  /\ s2c = <<>>
  /\ c2s = <<>>
  /\ sockets = <<>>
  /\ sessionId = "null"
  /\ ws = 0
  /\ uiState = [type |-> "idle", request |-> NoRequest, message |-> ""]
  /\ highlightedDocumentIds = {}
  /\ highlightedPages = NoPages
  /\ highlightedFilePaths = {}
  /\ selectedDocumentId = "null"
  /\ isEditing = FALSE
  /\ editedArgs = <<>>
  /\ alert = ""
  /\ selectedFilePath = "null"
  /\ currentPdfPage = 1
  /\ selectedDocumentDetail = "null"
  /\ fetches = {}
  /\ todos = <<>>
  /\ workflowEvents = <<>>
  /\ editOpened = NoRequest
  /\ received = <<>>
  /\ submitted = <<>>
  /\ consoleError = ""

(***************************************************************************)
(* Approval Broker.                                                        *)
(***************************************************************************)
\* propose(toolCall) for a call the policy does not gate: the directive is
\* returned at once.
ProposeUngated(toolName, args) ==
  /\ calls' = Append(calls, [tool_name |-> toolName, tool_args |-> args, request_id |-> 0,
                             status |-> "returned", directive |-> Execute(args),
                             resumes |-> 0, refused |-> FALSE])
  /\ UNCHANGED <<pending, nextRequestId, s2c>>

\* allowed_decisions of a tool: its configured set, all three by default.
AllowedFor(toolName) == IF toolName \in DOMAIN policy THEN policy[toolName] ELSE Variants

\* Mutant: a call identical to one that is still open is filed under the
\* open entry's request_id.
ProposeGatedDeduplicating(toolName, args) ==
  LET same == {e \in pending : e.request.tool_name = toolName /\ e.request.tool_args = args}
      id == IF same = {} THEN nextRequestId
            ELSE (CHOOSE e \in same : TRUE).request.request_id
      request == ApprovalRequest(id, toolName, args, AllowedFor(toolName))
  IN /\ pending' = pending \cup {[request |-> request, resolver |-> Len(calls) + 1]}
     /\ nextRequestId' = IF same = {} THEN nextRequestId + 1 ELSE nextRequestId
     /\ s2c' = Append(s2c, [type |-> "approval_request", data |-> request,
                            status |-> "", details |-> ""])
     /\ calls' = Append(calls, [tool_name |-> toolName, tool_args |-> args,
                                request_id |-> id, status |-> "suspended",
                                directive |-> NoDirective, resumes |-> 0,
                                refused |-> FALSE])

\* propose(toolCall) for a gated call: a pending entry under a fresh
\* request_id, the request on the channel, and the caller suspended.
ProposeGated(toolName, args) ==
  LET request == ApprovalRequest(nextRequestId, toolName, args, AllowedFor(toolName)) IN
  /\ pending' = pending \cup {[request |-> request, resolver |-> Len(calls) + 1]}
  /\ nextRequestId' = nextRequestId + 1
  /\ s2c' = Append(s2c, [type |-> "approval_request", data |-> request,
                         status |-> "", details |-> ""])
  /\ calls' = Append(calls, [tool_name |-> toolName, tool_args |-> args,
                             request_id |-> nextRequestId, status |-> "suspended",
                             directive |-> NoDirective, resumes |-> 0, refused |-> FALSE])

\* propose(toolCall)
proposeCall(toolName, args) ==
  /\ sessionStatus = "running"
  /\ Len(calls) < MaxCalls
  /\ IF requiresApproval(toolName)
     THEN ProposeGated(toolName, args)
     ELSE ProposeUngated(toolName, args)
  /\ UNCHANGED <<policy, resolutions, resolveResult, context, sessionStatus, c2s, storeVars,
                 panelVars, viewVars, logVars>>

\* The agent is one logical sequence of steps: it proposes its next call once
\* the previous one has returned.
propose(toolName, args) ==
  /\ \A i \in 1..Len(calls) : calls[i].status = "returned"
  /\ proposeCall(toolName, args)

\* A call proposed whether or not earlier ones have returned: a retry of a
\* call whose request is still open, or the tool call of a parallel step.
ProposeAgain == \E toolName \in ProtocolTools : proposeCall(toolName, OriginalArgs)

Propose == \E toolName \in ProtocolTools : propose(toolName, OriginalArgs)

ProposeAnyTool == \E toolName \in Tools : propose(toolName, OriginalArgs)

\* The pending entries filed under request_id: one, or none.
\* Mutant: the table hands out whatever entry it holds.
LookupAny(request_id) == pending

Lookup(request_id) == {e \in pending : e.request.request_id = request_id}

IsOpen(request_id) == Lookup(request_id) # {}

\* The directive a valid decision yields.
DirectiveFor(request, decision) ==
  IF decision.type = "approve" THEN Execute(request.tool_args)
  ELSE IF decision.type = "edit" THEN Execute(decision.edited_action.args)
  ELSE Abort(decision.reason)

\* Mutant: a resolved entry is left in the table.
Keep(entry) == pending

\* The pending set once entry is resolved.
Remove(entry) == pending \ {entry}

\* The one-shot completion of the suspended call: it returns from propose
\* with the directive.
Resumed(entry, directive) ==
  [calls EXCEPT ![entry.resolver] =
     [@ EXCEPT !.status = "returned", !.directive = directive, !.resumes = @ + 1]]

\* Mutant: a rejection is raised as a failure of the run.
SessionAfterFatal(directive) == IF directive.kind = "abort" THEN "failed" ELSE sessionStatus

\* A rejection is not a fatal error: the session goes on as it was.
SessionAfter(directive) == sessionStatus

\* A rejection is fed back into the agent's context as a denial tool-result.
Fed(request_id, directive) ==
  IF directive.kind = "abort"
  THEN Append(context, [kind |-> "denied", request_id |-> request_id,
                        reason |-> directive.reason])
  ELSE context

\* Mutant: the discarded decision is still fed to the agent.
DiscardFeeds(request_id) ==
  /\ resolveResult' = Result(request_id, "unknown_request")
  /\ context' = Append(context, [kind |-> "denied", request_id |-> request_id,
                                 reason |-> "unknown request"])
  /\ UNCHANGED <<pending, calls, resolutions, sessionStatus>>

\* Unknown or already-resolved request_id: a protocol error, the decision is
\* discarded.
Discard(request_id) ==
  /\ resolveResult' = Result(request_id, "unknown_request")
  /\ UNCHANGED <<pending, calls, resolutions, context, sessionStatus>>

\* Mutant: the refused decision closes the entry.
RefuseCloses(request_id, entry) ==
  /\ resolveResult' = Result(request_id, "disallowed_decision")
  /\ pending' = pending \ {entry}
  /\ calls' = [calls EXCEPT ![entry.resolver] = [@ EXCEPT !.refused = TRUE]]
  /\ UNCHANGED <<resolutions, context, sessionStatus>>

\* A decision outside allowed_decisions: a protocol error, the entry stays
\* open.  The call notes that a decision was refused for it.
Refuse(request_id, entry) ==
  /\ resolveResult' = Result(request_id, "disallowed_decision")
  /\ calls' = [calls EXCEPT ![entry.resolver] = [@ EXCEPT !.refused = TRUE]]
  /\ UNCHANGED <<pending, resolutions, context, sessionStatus>>

\* A valid decision: Open -> Resolved, and the suspended call resumes.
Settle(request_id, entry, decision) ==
  LET directive == DirectiveFor(entry.request, decision) IN
  /\ pending' = Remove(entry)
  /\ calls' = Resumed(entry, directive)
  /\ resolutions' = Append(resolutions,
       [request_id |-> entry.request.request_id, by |-> "decision",
        decision |-> decision])
  /\ context' = Fed(entry.request.request_id, directive)
  /\ sessionStatus' = SessionAfter(directive)
  /\ resolveResult' = Result(request_id, "resolved")

\* resolve(request_id, decision)
resolve(request_id, decision) ==
  LET found == Lookup(request_id) IN
  IF found = {} THEN Discard(request_id)
  ELSE LET entry == CHOOSE e \in found : TRUE IN
       IF decision.type \notin entry.request.allowed_decisions
       THEN Refuse(request_id, entry)
       ELSE Settle(request_id, entry, decision)

\* The decisions of callers other than this client's panel: a redelivered
\* envelope, a second client of the session.
OtherDecisions ==
  {ApproveDecision, EditDecision("", RevisedArgs), RejectDecision("User rejected")}

ResolveCall ==
  /\ \E request_id \in 1..nextRequestId, decision \in OtherDecisions :
       resolve(request_id, decision)
  /\ UNCHANGED <<policy, nextRequestId, channelVars, storeVars, panelVars, viewVars, logVars>>

\* The server end of the channel hands the next approval_decision envelope to
\* the Broker.
DeliverDecision ==
  /\ c2s # <<>>
  /\ resolve(Head(c2s).request_id, Head(c2s).decision)
  /\ c2s' = Tail(c2s)
  /\ UNCHANGED <<policy, nextRequestId, s2c, storeVars, panelVars, viewVars, logVars>>

\* Expiry: the deadline of an open entry passes; the call resumes with a
\* synthesized rejection.
Expire ==
  /\ \E entry \in pending :
       LET directive == Abort("expired") IN
       /\ pending' = Remove(entry)
       /\ calls' = Resumed(entry, directive)
       /\ resolutions' = Append(resolutions,
            [request_id |-> entry.request.request_id, by |-> "expiry",
             decision |-> RejectDecision("expired")])
       /\ context' = Fed(entry.request.request_id, directive)
       /\ sessionStatus' = SessionAfter(directive)
  /\ UNCHANGED <<policy, nextRequestId, resolveResult, channelVars, storeVars, panelVars,
                 viewVars, logVars>>

\* The open entries' request_ids, in the order they were issued.
RECURSIVE InOrder(_)
InOrder(ids) ==
  IF ids = {} THEN <<>>
  ELSE LET first == CHOOSE id \in ids : \A other \in ids : id <= other
       IN <<first>> \o InOrder(ids \ {first})

TeardownReason == "session teardown"

\* Mutant: teardown forgets the call.
CancelledSilently(call) == call

\* A suspended call that teardown cancels resumes with a rejection.
Cancelled(call) ==
  IF call.status = "suspended"
  THEN [call EXCEPT !.status = "returned", !.directive = Abort(TeardownReason),
                    !.resumes = @ + 1]
  ELSE call

\* Explicit session teardown: every open entry is resolved as a Reject.
Teardown ==
  LET ids == InOrder({e.request.request_id : e \in pending}) IN
  /\ sessionStatus = "running"
  /\ pending' = {}
  /\ calls' = [i \in 1..Len(calls) |-> Cancelled(calls[i])]
  /\ resolutions' = resolutions \o
       [k \in 1..Len(ids) |-> [request_id |-> ids[k], by |-> "teardown",
                               decision |-> RejectDecision(TeardownReason)]]
  /\ context' = context \o
       [k \in 1..Len(ids) |-> [kind |-> "denied", request_id |-> ids[k],
                               reason |-> TeardownReason]]
  /\ sessionStatus' = "closed"
  /\ UNCHANGED <<policy, nextRequestId, resolveResult, channelVars, storeVars, panelVars,
                 viewVars, logVars>>

\* The agent ends its run and reports it.
AgentFinish ==
  /\ sessionStatus = "running"
  /\ \A i \in 1..Len(calls) : calls[i].status = "returned"
  /\ \E status \in {"completed", "failed"} :
       /\ sessionStatus' = status
       /\ s2c' = Append(s2c, [type |-> "agent_status", data |-> NoRequest, status |-> status,
                              details |-> IF status = "failed" THEN "agent failed" ELSE ""])
  /\ UNCHANGED <<policy, pending, nextRequestId, calls, resolutions, resolveResult, context,
                 c2s, storeVars, panelVars, viewVars, logVars>>

(***************************************************************************)
(* Decision Client: the store.                                             *)
(***************************************************************************)
Ui(type) == [type |-> type, request |-> NoRequest, message |-> ""]

\* connect(sessionId), called by App's Start Analysis button, which is shown
\* while the store has no sessionId.
connect ==
  /\ Len(sockets) < MaxSockets
  /\ sockets' = Append(sockets, "connecting")
  /\ sessionId' = "s1"
  /\ ws' = Len(sockets) + 1
  /\ UNCHANGED <<brokerVars, channelVars, uiState, highlightedDocumentIds, highlightedPages,
                 highlightedFilePaths, selectedDocumentId, panelVars, viewVars, logVars>>

Connect == sessionId = "null" /\ connect

\* connect(sessionId) called again for the session the store still names, once
\* its socket has closed.
Reconnect == sessionId # "null" /\ ws = 0 /\ connect

\* disconnect().  close() leaves an open socket closing; a socket that was
\* still connecting fails, and its error event precedes its close event.
Disconnect ==
  /\ ws # 0
  /\ sockets' = [sockets EXCEPT ![ws] = IF @ = "open" THEN "closing"
                                        ELSE IF @ = "connecting" THEN "aborted" ELSE @]
  /\ ws' = 0
  /\ sessionId' = "null"
  /\ UNCHANGED <<brokerVars, channelVars, uiState, highlightedDocumentIds, highlightedPages,
                 highlightedFilePaths, selectedDocumentId, panelVars, viewVars, logVars>>

\* ws.onopen
OnOpen ==
  /\ \E i \in 1..Len(sockets) :
       /\ sockets[i] = "connecting"
       /\ sockets' = [sockets EXCEPT ![i] = "open"]
       /\ ws' = i
  /\ sessionId' = "s1"
  /\ uiState' = Ui("agent_running")
  /\ UNCHANGED <<brokerVars, channelVars, highlightedDocumentIds, highlightedPages,
                 highlightedFilePaths, selectedDocumentId, panelVars, viewVars, logVars>>

\* ws.onerror; the browser closes the socket and fires its close event next.
OnError ==
  /\ \E i \in 1..Len(sockets) :
       /\ sockets[i] \in {"connecting", "open", "aborted"}
       /\ sockets' = [sockets EXCEPT ![i] = "closing"]
  /\ uiState' = [type |-> "error", request |-> NoRequest, message |-> "Connection error"]
  /\ UNCHANGED <<brokerVars, channelVars, sessionId, ws, highlightedDocumentIds,
                 highlightedPages, highlightedFilePaths, selectedDocumentId, panelVars,
                 viewVars, logVars>>

\* ws.onclose
OnClose ==
  /\ \E i \in 1..Len(sockets) :
       /\ sockets[i] \in {"open", "closing"}
       /\ sockets' = [sockets EXCEPT ![i] = "closed"]
  /\ ws' = 0
  /\ UNCHANGED <<brokerVars, channelVars, sessionId, uiState, highlightedDocumentIds,
                 highlightedPages, highlightedFilePaths, selectedDocumentId, panelVars,
                 viewVars, logVars>>

\* The set of a list's elements.
Range(seq) == {seq[i] : i \in 1..Len(seq)}

\* new Map built by the two forEach loops of handleApprovalRequest: a document
\* highlight sets its document's entry, a page highlight adds to it.
RECURSIVE SetPages(_, _)
SetPages(map, dhs) ==
  IF dhs = <<>> THEN map
  ELSE LET dh == Head(dhs) IN
       SetPages([d \in DOMAIN map \cup {dh.doc_id} |->
                   IF d = dh.doc_id THEN Range(dh.legally_significant_pages) ELSE map[d]],
                Tail(dhs))

RECURSIVE AddPages(_, _)
AddPages(map, phs) ==
  IF phs = <<>> THEN map
  ELSE LET ph == Head(phs)
           existing == IF ph.doc_id \in DOMAIN map THEN map[ph.doc_id] ELSE {}
       IN AddPages([d \in DOMAIN map \cup {ph.doc_id} |->
                      IF d = ph.doc_id THEN existing \cup Range(ph.page_nums) ELSE map[d]],
                   Tail(phs))

\* Mutant: the new highlights are added to the ones already set.
handleApprovalRequestMerging(request) ==
  LET docIds == {request.document_highlights[i].doc_id :
                   i \in 1..Len(request.document_highlights)}
      pageHighlights == AddPages(SetPages(highlightedPages, request.document_highlights),
                                 request.page_highlights)
      fileHighlights == {request.file_highlights[i].file_path :
                           i \in 1..Len(request.file_highlights)}
      newSelected == IF docIds # {} /\ selectedDocumentId = "null"
                     THEN request.document_highlights[1].doc_id
                     ELSE selectedDocumentId
  IN /\ uiState' = [type |-> "awaiting_approval", request |-> request, message |-> ""]
     /\ highlightedDocumentIds' = highlightedDocumentIds \cup docIds
     /\ highlightedPages' = pageHighlights
     /\ highlightedFilePaths' = highlightedFilePaths \cup fileHighlights
     /\ selectedDocumentId' = newSelected

\* Mutant: the first highlighted document is selected over the user's choice.
handleApprovalRequestSelecting(request) ==
  LET docIds == {request.document_highlights[i].doc_id :
                   i \in 1..Len(request.document_highlights)}
      pageHighlights == AddPages(SetPages(NoPages, request.document_highlights),
                                 request.page_highlights)
      fileHighlights == {request.file_highlights[i].file_path :
                           i \in 1..Len(request.file_highlights)}
      newSelected == IF docIds # {}
                     THEN request.document_highlights[1].doc_id
                     ELSE selectedDocumentId
  IN /\ uiState' = [type |-> "awaiting_approval", request |-> request, message |-> ""]
     /\ highlightedDocumentIds' = docIds
     /\ highlightedPages' = pageHighlights
     /\ highlightedFilePaths' = fileHighlights
     /\ selectedDocumentId' = newSelected

\* handleApprovalRequest(data, set, get)
handleApprovalRequest(request) ==
  LET docIds == {request.document_highlights[i].doc_id :
                   i \in 1..Len(request.document_highlights)}
      pageHighlights == AddPages(SetPages(NoPages, request.document_highlights),
                                 request.page_highlights)
      fileHighlights == {request.file_highlights[i].file_path :
                           i \in 1..Len(request.file_highlights)}
      newSelected == IF docIds # {} /\ selectedDocumentId = "null"
                     THEN request.document_highlights[1].doc_id
                     ELSE selectedDocumentId
  IN /\ uiState' = [type |-> "awaiting_approval", request |-> request, message |-> ""]
     /\ highlightedDocumentIds' = docIds
     /\ highlightedPages' = pageHighlights
     /\ highlightedFilePaths' = fileHighlights
     /\ selectedDocumentId' = newSelected

\* Mutant: a status that is not completed or failed means the agent runs.
handleAgentStatusElseRunning(status, details) ==
  /\ uiState' = IF status = "completed" THEN Ui("completed")
                ELSE IF status = "failed"
                THEN [type |-> "error", request |-> NoRequest, message |-> details]
                ELSE Ui("agent_running")
  /\ UNCHANGED <<highlightedDocumentIds, highlightedPages, highlightedFilePaths,
                 selectedDocumentId>>

\* handleAgentStatus(data, set)
handleAgentStatus(status, details) ==
  /\ uiState' = IF status = "completed" THEN Ui("completed")
                ELSE IF status = "failed"
                THEN [type |-> "error", request |-> NoRequest, message |-> details]
                ELSE IF status = "running" THEN Ui("agent_running")
                ELSE uiState
  /\ UNCHANGED <<highlightedDocumentIds, highlightedPages, highlightedFilePaths,
                 selectedDocumentId>>

\* handleTodosUpdate(data, set)
handleTodosUpdate(data) ==
  /\ todos' = data.todos
  /\ UNCHANGED <<uiState, highlightedDocumentIds, highlightedPages, highlightedFilePaths,
                 selectedDocumentId, workflowEvents>>

\* Mutant: the new event is put in front of the earlier ones.
handleWorkflowEventFirst(data) ==
  LET event == [event_type |-> data.event_type, data |-> data.data,
                timestamp |-> Len(received) + 1]
  IN /\ workflowEvents' = <<event>> \o workflowEvents
     /\ UNCHANGED <<uiState, highlightedDocumentIds, highlightedPages, highlightedFilePaths,
                    selectedDocumentId, todos>>

\* handleWorkflowEvent(data, set, get).  The timestamp is the time of arrival;
\* the clock is the count of the envelopes handled.
handleWorkflowEvent(data) ==
  LET event == [event_type |-> data.event_type, data |-> data.data,
                timestamp |-> Len(received) + 1]
  IN /\ workflowEvents' = workflowEvents \o <<event>>
     /\ UNCHANGED <<uiState, highlightedDocumentIds, highlightedPages, highlightedFilePaths,
                    selectedDocumentId, todos>>

\* ws.onmessage(event): the switch over message.type.  The default branch
\* only warns.
onmessage(message) ==
  /\ IF message.type = "approval_request"
     THEN handleApprovalRequest(message.data) /\ UNCHANGED <<todos, workflowEvents>>
     ELSE IF message.type = "agent_status"
     THEN handleAgentStatus(message.status, message.details)
          /\ UNCHANGED <<todos, workflowEvents>>
     ELSE IF message.type = "todos_update" THEN handleTodosUpdate(message.data)
     ELSE IF message.type = "workflow_event" THEN handleWorkflowEvent(message.data)
     ELSE UNCHANGED <<uiState, highlightedDocumentIds, highlightedPages,
                      highlightedFilePaths, selectedDocumentId, todos, workflowEvents>>
  /\ received' = Append(received, [type |-> message.type,
                                   request_id |-> IF message.type = "approval_request"
                                                  THEN message.data.request_id ELSE 0])
  /\ UNCHANGED <<brokerVars, c2s, sockets, sessionId, ws, panelVars, selectedFilePath,
                 currentPdfPage, selectedDocumentDetail, fetches, submitted, consoleError>>

\* ws.onmessage: the next envelope of the session reaches an open socket.
OnMessage ==
  /\ s2c # <<>>
  /\ \E i \in 1..Len(sockets) : sockets[i] = "open"
  /\ onmessage(Head(s2c))
  /\ s2c' = Tail(s2c)

\* submitDecision(decision).  The three outcomes of the call: it returns
\* early, ws.send throws on a socket that is still connecting, or it sends
\* (a closing or closed socket discards the data) and clears the projection.
NotAwaiting == "Cannot submit decision: not awaiting approval"

\* Mutant: the guard looks at the socket only.
CanSubmitConnected == ws # 0

CanSubmit == ws # 0 /\ uiState.type = "awaiting_approval"

SendThrows == CanSubmit /\ sockets[ws] = "connecting"

\* Mutant: the envelope names the first request the socket delivered.
EnvelopeOfFirst(decision) ==
  [type |-> "approval_decision", request_id |-> received[1].request_id,
   decision |-> decision]

Envelope(decision) ==
  [type |-> "approval_decision", request_id |-> uiState.request.request_id,
   decision |-> decision]

\* Mutant: the projection is left as it was.
submitDecisionKeepsHighlights(decision) ==
  IF ~CanSubmit
  THEN /\ consoleError' = NotAwaiting
       /\ UNCHANGED <<c2s, uiState, highlightedDocumentIds, highlightedPages,
                      highlightedFilePaths, submitted>>
  ELSE IF SendThrows
  THEN UNCHANGED <<c2s, uiState, highlightedDocumentIds, highlightedPages,
                   highlightedFilePaths, submitted, consoleError>>
  ELSE /\ consoleError' = consoleError
       /\ c2s' = IF sockets[ws] = "open" THEN Append(c2s, Envelope(decision)) ELSE c2s
       /\ submitted' = Append(submitted, [after |-> Len(received),
                                          envelope |-> Envelope(decision)])
       /\ uiState' = Ui("agent_running")
       /\ UNCHANGED <<highlightedDocumentIds, highlightedPages, highlightedFilePaths>>

\* Mutant: the projection is cleared before the guard is looked at.
submitDecisionClearsFirst(decision) ==
  IF ~CanSubmit
  THEN /\ consoleError' = NotAwaiting
       /\ uiState' = Ui("agent_running")
       /\ highlightedDocumentIds' = {}
       /\ highlightedPages' = NoPages
       /\ highlightedFilePaths' = {}
       /\ UNCHANGED <<c2s, submitted>>
  ELSE IF SendThrows
  THEN UNCHANGED <<c2s, uiState, highlightedDocumentIds, highlightedPages,
                   highlightedFilePaths, submitted, consoleError>>
  ELSE /\ consoleError' = consoleError
       /\ c2s' = IF sockets[ws] = "open" THEN Append(c2s, Envelope(decision)) ELSE c2s
       /\ submitted' = Append(submitted, [after |-> Len(received),
                                          envelope |-> Envelope(decision)])
       /\ uiState' = Ui("agent_running")
       /\ highlightedDocumentIds' = {}
       /\ highlightedPages' = NoPages
       /\ highlightedFilePaths' = {}

submitDecision(decision) ==
  IF ~CanSubmit
  THEN /\ consoleError' = NotAwaiting
       /\ UNCHANGED <<c2s, uiState, highlightedDocumentIds, highlightedPages,
                      highlightedFilePaths, submitted>>
  ELSE IF SendThrows
  THEN UNCHANGED <<c2s, uiState, highlightedDocumentIds, highlightedPages,
                   highlightedFilePaths, submitted, consoleError>>
  ELSE /\ consoleError' = consoleError
       /\ c2s' = IF sockets[ws] = "open" THEN Append(c2s, Envelope(decision)) ELSE c2s
       /\ submitted' = Append(submitted, [after |-> Len(received),
                                          envelope |-> Envelope(decision)])
       /\ uiState' = Ui("agent_running")
       /\ highlightedDocumentIds' = {}
       /\ highlightedPages' = NoPages
       /\ highlightedFilePaths' = {}

(***************************************************************************)
(* Decision Client: ApprovalPanel.  The panel renders, and its buttons    *)
(* exist, only while uiState is awaiting_approval; isEditing and          *)
(* editedArgs are component state and outlive the request.                *)
(***************************************************************************)
InvalidJson == "Invalid JSON. Please check your edits."

\* What the reviewer may leave in the textarea: the revised arguments, and
\* the same text cut short.
UserTexts ==
  {<<"{", "arg", ":", "1", "}">>,
   <<"{", "arg", ":", "1">>}

Rendered == uiState.type = "awaiting_approval"
canEdit == "edit" \in uiState.request.allowed_decisions
canReject == "reject" \in uiState.request.allowed_decisions

\* The Approve button is disabled while editing.
handleApprove ==
  /\ Rendered /\ ~isEditing
  /\ submitDecision(ApproveDecision)
  /\ isEditing' = FALSE
  /\ alert' = ""
  /\ UNCHANGED <<brokerVars, s2c, sockets, sessionId, ws, selectedDocumentId, editedArgs,
                 editOpened, viewVars, received>>

\* Mutant: the decision carries the request's own arguments.
EditedActionOriginal(request, parsed) == EditDecision(request.tool_name, request.tool_args)

\* The decision handleEdit builds from the request and the parsed text.
EditedAction(request, parsed) == EditDecision(request.tool_name, parsed)

\* Mutant: the editor is closed whether or not the text parsed.
InvalidEditCloses ==
  /\ alert' = InvalidJson
  /\ isEditing' = FALSE
  /\ UNCHANGED <<c2s, uiState, highlightedDocumentIds, highlightedPages,
                 highlightedFilePaths, editedArgs, editOpened, submitted,
                 consoleError>>

\* JSON.parse threw: the catch block alerts, and nothing else happens.
InvalidEdit ==
  /\ alert' = InvalidJson
  /\ UNCHANGED <<c2s, uiState, highlightedDocumentIds, highlightedPages,
                 highlightedFilePaths, isEditing, editedArgs, editOpened, submitted,
                 consoleError>>

\* The Edit button: opens the editor, or confirms the edit.
handleEdit ==
  /\ Rendered /\ canEdit
  /\ IF isEditing
     THEN LET parsed == JSONParse(editedArgs) IN
          IF parsed.ok
          THEN /\ submitDecision(EditedAction(uiState.request, parsed.value))
               /\ isEditing' = SendThrows
               /\ alert' = IF SendThrows THEN InvalidJson ELSE ""
               /\ editOpened' = IF SendThrows THEN editOpened ELSE NoRequest
               /\ UNCHANGED editedArgs
          ELSE InvalidEdit
     ELSE /\ editedArgs' = JSONStringify(uiState.request.tool_args)
          /\ isEditing' = TRUE
          /\ editOpened' = uiState.request
          /\ alert' = ""
          /\ UNCHANGED <<c2s, uiState, highlightedDocumentIds, highlightedPages,
                         highlightedFilePaths, submitted, consoleError>>
  /\ UNCHANGED <<brokerVars, s2c, sockets, sessionId, ws, selectedDocumentId, viewVars,
                 received>>

\* The Reject button is disabled while editing.
handleReject ==
  /\ Rendered /\ canReject /\ ~isEditing
  /\ submitDecision(RejectDecision("User rejected"))
  /\ isEditing' = FALSE
  /\ alert' = ""
  /\ UNCHANGED <<brokerVars, s2c, sockets, sessionId, ws, selectedDocumentId, editedArgs,
                 editOpened, viewVars, received>>

handleCancel ==
  /\ Rendered /\ isEditing
  /\ isEditing' = FALSE
  /\ editOpened' = NoRequest
  /\ alert' = ""
  /\ UNCHANGED <<brokerVars, channelVars, storeVars, editedArgs, viewVars, logVars>>

\* The textarea's onChange.
setEditedArgs ==
  /\ Rendered /\ isEditing
  /\ \E text \in UserTexts : editedArgs' = text
  /\ alert' = ""
  /\ UNCHANGED <<brokerVars, channelVars, storeVars, isEditing, editOpened, viewVars,
                 logVars>>

\* A handler of the render before the decision was submitted runs once more
\* (a second click queued behind the first): submitDecision is called again,
\* then setIsEditing(false).
RepeatSubmit ==
  /\ submitted # <<>>
  /\ ~Rendered
  /\ \E decision \in {ApproveDecision, RejectDecision("User rejected")} :
       submitDecision(decision)
  /\ isEditing' = FALSE
  /\ editOpened' = NoRequest
  /\ alert' = ""
  /\ UNCHANGED <<brokerVars, s2c, sockets, sessionId, ws, selectedDocumentId, editedArgs,
                 viewVars, received>>

(***************************************************************************)
(* Decision Client: documents, files and the layout of App.                *)
(***************************************************************************)
Documents == {"d1", "d2"}
FilePaths == {"report.md", "notes.md"}

\* selectDocument(docId), up to its await: DocumentList's onClick.
selectDocument(docId) ==
  /\ selectedDocumentId' = docId
  /\ currentPdfPage' = 1
  /\ fetches' = fetches \cup {docId}
  /\ UNCHANGED <<brokerVars, channelVars, sockets, sessionId, ws, uiState,
                 highlightedDocumentIds, highlightedPages, highlightedFilePaths, panelVars,
                 selectedFilePath, selectedDocumentDetail, todos, workflowEvents, logVars>>

SelectDocument == \E docId \in Documents : selectDocument(docId)

\* selectDocument after its await: the fetch of a document's detail settles
\* with the detail.  A detail is named by its document.
FetchSettles ==
  /\ \E docId \in fetches :
       /\ fetches' = fetches \ {docId}
       /\ selectedDocumentDetail' = docId
  /\ UNCHANGED <<brokerVars, channelVars, storeVars, panelVars, selectedFilePath,
                 currentPdfPage, todos, workflowEvents, logVars>>

\* selectDocument after its await: the fetch throws, and the error is logged.
FetchFails ==
  /\ \E docId \in fetches : fetches' = fetches \ {docId}
  /\ UNCHANGED <<brokerVars, channelVars, storeVars, panelVars, selectedFilePath,
                 currentPdfPage, selectedDocumentDetail, todos, workflowEvents, logVars>>

\* DocumentDetail.page_count of the documents the server holds; the pages of
\* a detail are numbered from 1 to its page_count.
page_count == [d1 |-> 2, d2 |-> 1]

\* setCurrentPdfPage(page)
setCurrentPdfPage(page) ==
  /\ currentPdfPage' = page
  /\ UNCHANGED <<brokerVars, channelVars, storeVars, panelVars, selectedFilePath,
                 selectedDocumentDetail, fetches, todos, workflowEvents, logVars>>

\* PDFViewer: the Prev button, disabled on page 1.
handlePrevPage ==
  /\ selectedDocumentId \notin {"null", ""}
  /\ currentPdfPage # 1
  /\ IF currentPdfPage > 1 THEN setCurrentPdfPage(currentPdfPage - 1) ELSE UNCHANGED vars

\* PDFViewer: the Next button, disabled on the page numbered page_count || 0.
handleNextPage ==
  /\ selectedDocumentId \notin {"null", ""}
  /\ currentPdfPage # (IF selectedDocumentDetail # "null"
                        THEN page_count[selectedDocumentDetail] ELSE 0)
  /\ IF selectedDocumentDetail # "null" /\ currentPdfPage < page_count[selectedDocumentDetail]
     THEN setCurrentPdfPage(currentPdfPage + 1)
     ELSE UNCHANGED vars

\* PDFViewer: a click in the page list of the sidebar, which lists the pages
\* of the detail that is loaded.
PageClick ==
  /\ selectedDocumentId \notin {"null", ""}
  /\ selectedDocumentDetail # "null"
  /\ \E num \in 1..page_count[selectedDocumentDetail] : setCurrentPdfPage(num)

\* selectFile(filePath): the file list's onClick.
selectFile(filePath) ==
  /\ selectedFilePath' = filePath
  /\ UNCHANGED <<brokerVars, channelVars, storeVars, panelVars, currentPdfPage,
                 selectedDocumentDetail, fetches, todos, workflowEvents, logVars>>

SelectFile == \E filePath \in FilePaths : selectFile(filePath)

\* App: the dynamic widths of the three panels.
hasDocumentSelected == selectedDocumentId \notin {"null", ""}
hasFileSelected == selectedFilePath \notin {"null", ""}

Layout(left, center, right) == [left |-> left, center |-> center, right |-> right]

\* Mutant: the case of both selections is missing.
WidthsWithoutBoth ==
  IF hasDocumentSelected THEN Layout(40, 40, 20)
  ELSE IF hasFileSelected THEN Layout(20, 40, 40)
  ELSE Layout(20, 60, 20)

Widths ==
  IF hasDocumentSelected /\ hasFileSelected THEN Layout(40, 20, 40)
  ELSE IF hasDocumentSelected THEN Layout(40, 40, 20)
  ELSE IF hasFileSelected THEN Layout(20, 40, 40)
  ELSE Layout(20, 60, 20)

leftWidth == Widths.left
centerWidth == Widths.center
rightWidth == Widths.right

(***************************************************************************)
(* The server as the client alone sees it: any envelope, at any time.      *)
(***************************************************************************)
DocumentHighlight(docId, pages) == [doc_id |-> docId, legally_significant_pages |-> pages]
PageHighlight(docId, pages) == [doc_id |-> docId, page_nums |-> pages]
FileHighlight(path, operation) == [file_path |-> path, operation |-> operation]

\* The requests a server may push: a document with a page highlight of its
\* own, a file write that may not be edited, a document listed twice, and a
\* request that allows rejection only.
ServerRequests ==
  {[request_id |-> 1, tool_name |-> "get_documents", tool_args |-> OriginalArgs,
    allowed_decisions |-> Variants,
    document_highlights |-> <<DocumentHighlight("d1", <<1>>)>>,
    page_highlights |-> <<PageHighlight("d1", <<2>>), PageHighlight("d2", <<1>>)>>,
    file_highlights |-> <<>>],
   [request_id |-> 2, tool_name |-> "write_file", tool_args |-> OriginalArgs,
    allowed_decisions |-> {"approve", "reject"},
    document_highlights |-> <<>>, page_highlights |-> <<>>,
    file_highlights |-> <<FileHighlight("report.md", "write")>>],
   [request_id |-> 2, tool_name |-> "get_documents", tool_args |-> OriginalArgs,
    allowed_decisions |-> Variants,
    document_highlights |-> <<DocumentHighlight("d2", <<1>>), DocumentHighlight("d2", <<2>>)>>,
    page_highlights |-> <<>>, file_highlights |-> <<>>],
   [request_id |-> 1, tool_name |-> "edit_file", tool_args |-> OriginalArgs,
    allowed_decisions |-> {"reject"},
    document_highlights |-> <<>>, page_highlights |-> <<>>,
    file_highlights |-> <<FileHighlight("notes.md", "edit")>>]}

\* agent_status may carry a status the client does not know.
Statuses == {"running", "completed", "failed", "paused"}

ServerMessages ==
  {[type |-> "approval_request", data |-> request, status |-> "", details |-> ""] :
     request \in ServerRequests}
  \cup {[type |-> "agent_status", data |-> NoRequest, status |-> status,
          details |-> IF status = "failed" THEN "agent failed" ELSE ""] :
          status \in Statuses}

\* The feed a server may push besides: todo lists, workflow events, and an
\* envelope of a type the client does not know.
Todo(content, status) == [content |-> content, status |-> status, activeForm |-> content]

FeedMessages ==
  {[type |-> "todos_update", data |-> [todos |-> list], status |-> "", details |-> ""] :
     list \in {<<Todo("review", "in_progress")>>,
               <<Todo("review", "completed"), Todo("report", "pending")>>}}
  \cup {[type |-> "workflow_event", data |-> [event_type |-> event_type, data |-> "d1"],
          status |-> "", details |-> ""] :
          event_type \in {"tool_call", "tool_result"}}
  \cup {[type |-> "heartbeat", data |-> [todos |-> <<>>], status |-> "", details |-> ""]}

\* An envelope arrives on an open socket.
Receive ==
  /\ Len(received) < MaxMessages
  /\ \E i \in 1..Len(sockets) : sockets[i] = "open"
  /\ \E message \in ServerMessages : onmessage(message)
  /\ UNCHANGED s2c

Next ==
  \/ Propose \/ DeliverDecision \/ Expire \/ AgentFinish
  \/ Connect \/ OnOpen \/ OnError \/ OnClose \/ OnMessage
  \/ handleApprove \/ handleEdit \/ handleReject \/ handleCancel \/ setEditedArgs

Spec == Init /\ [][Next]_vars

\* The Broker alone, its resolve called with any request_id and decision.
NextBroker == Propose \/ ResolveCall \/ Expire

SpecBroker == Init /\ [][NextBroker]_vars

\* The Broker alone, the agent proposing every tool, all three decisions
\* allowed for each.
InitPolicy == Init /\ \A t \in APPROVAL_REQUIRED_TOOLS : policy[t] = Variants

NextPolicy == ProposeAnyTool \/ ResolveCall \/ Expire

SpecPolicy == InitPolicy /\ [][NextPolicy]_vars

\* The client alone, under the default policy, the server pushing any
\* envelope.
NextClient ==
  \/ Connect \/ Disconnect \/ OnOpen \/ OnError \/ OnClose \/ Receive
  \/ handleApprove \/ handleEdit \/ handleReject \/ handleCancel \/ setEditedArgs
  \/ RepeatSubmit

SpecClient == InitPolicy /\ [][NextClient]_vars

\* The Broker alone, calls proposed while earlier ones are open, and the
\* session torn down at any time.
NextConcurrent == ProposeAgain \/ ResolveCall \/ Expire \/ Teardown

SpecConcurrent == Init /\ [][NextConcurrent]_vars

\* The session with a client that connects again to the session it names
\* after its socket has closed.
NextReconnect ==
  \/ Propose \/ DeliverDecision \/ Expire \/ AgentFinish
  \/ Connect \/ Reconnect \/ OnOpen \/ OnError \/ OnClose \/ OnMessage
  \/ handleApprove \/ handleEdit \/ handleReject \/ handleCancel \/ setEditedArgs

SpecReconnect == InitPolicy /\ [][NextReconnect]_vars

\* The client's documents, files and layout, with the requests that select
\* a document by themselves.
\* An envelope of the feed arrives on an open socket.
ReceiveFeed ==
  /\ Len(received) < MaxFeed
  /\ \E i \in 1..Len(sockets) : sockets[i] = "open"
  /\ \E message \in FeedMessages : onmessage(message)
  /\ UNCHANGED s2c

\* The client on one socket, with a server that also pushes the feed.
NextFeed ==
  \/ Connect \/ OnOpen \/ Receive \/ ReceiveFeed
  \/ handleApprove \/ handleReject

SpecFeed == InitPolicy /\ [][NextFeed]_vars

\* The document viewer: selections by the user and by a request, detail
\* fetches that settle in any order, and page navigation.
NextPages ==
  \/ Connect \/ OnOpen \/ Receive
  \/ SelectDocument \/ FetchSettles
  \/ handlePrevPage \/ handleNextPage \/ PageClick

SpecPages == InitPolicy /\ [][NextPages]_vars

NextView ==
  \/ Connect \/ OnOpen \/ Receive
  \/ SelectDocument \/ FetchSettles \/ FetchFails \/ SelectFile

SpecView == InitPolicy /\ [][NextView]_vars

(***************************************************************************)
(* Properties.                                                             *)
(***************************************************************************)
\* The tool names the documentation lists as requiring approval.
GatedNames ==
  {"get_documents", "get_page_text", "get_page_image", "write_file", "edit_file",
   "web_search", "web_fetch", "analyze_documents", "create_report"}

\* The resolutions logged for a request_id.
ResolutionsOf(request_id) ==
  {j \in 1..Len(resolutions) : resolutions[j].request_id = request_id}

\* C1: a call of any of the nine gated tools holds an execute directive only
\* if an Approve or Edit decision resolved the request created for that call.
C1_ExecuteOnlyAfterApproval ==
  \A i \in 1..Len(calls) :
    (calls[i].tool_name \in GatedNames /\ calls[i].directive.kind = "execute")
      => /\ calls[i].request_id # 0
         /\ \E j \in ResolutionsOf(calls[i].request_id) :
              /\ resolutions[j].by = "decision"
              /\ resolutions[j].decision.type \in {"approve", "edit"}

\* C1 witness: a web research call executes after an approval and a subagent
\* call after an edit.
C1_Witness ==
  /\ Len(calls) = 2
  /\ calls[1].tool_name = "web_fetch" /\ calls[1].directive = Execute(OriginalArgs)
  /\ calls[2].tool_name = "create_report" /\ calls[2].directive = Execute(RevisedArgs)
  /\ resolutions[1].decision.type = "approve"
  /\ resolutions[2].decision.type = "edit"

\* C2: a call of a tool outside the approval-required set has returned from
\* propose with "execute with the original args", without a request_id, a
\* pending entry or an approval_request envelope: entries and envelopes exist
\* for gated calls only, one each.
C2_UngatedExecutesAtOnce ==
  /\ \A i \in 1..Len(calls) :
       calls[i].tool_name \notin GatedNames
         => /\ calls[i].status = "returned"
            /\ calls[i].directive = Execute(calls[i].tool_args)
            /\ calls[i].request_id = 0
            /\ calls[i].resumes = 0
  /\ \A e \in pending : calls[e.resolver].tool_name \in GatedNames
  /\ \A k \in 1..Len(s2c) :
       s2c[k].type = "approval_request" => s2c[k].data.tool_name \in GatedNames
  /\ Cardinality({k \in 1..Len(s2c) : s2c[k].type = "approval_request"})
       = Cardinality({i \in 1..Len(calls) : calls[i].tool_name \in GatedNames})

\* C2 witness: an ungated call has returned while a gated one is suspended.
C2_Witness ==
  /\ Len(calls) = 2
  /\ calls[1].tool_name = "write_todos" /\ calls[1].directive = Execute(OriginalArgs)
  /\ calls[2].tool_name = "web_search" /\ calls[2].status = "suspended"
  /\ Len(s2c) = 1

\* The requests the Broker has issued.
IssuedRequests ==
  {ApprovalRequest(calls[i].request_id, calls[i].tool_name, calls[i].tool_args,
                   AllowedFor(calls[i].tool_name)) :
     i \in {c \in 1..Len(calls) : calls[c].request_id # 0}}

\* C3: every approval_decision the client transmits has a variant that the
\* request it answers allows.
C3_DecisionWithinAllowed ==
  \A k \in 1..Len(c2s) :
    \E r \in IssuedRequests :
      /\ r.request_id = c2s[k].request_id
      /\ c2s[k].decision.type \in r.allowed_decisions

\* The envelope a step of the client puts on the channel, if it puts one.
Sends == Len(c2s') = Len(c2s) + 1
Sent == c2s'[Len(c2s')]

\* The call a request_id was minted for.
CallOf(request_id) == CHOOSE i \in 1..Len(calls) : calls[i].request_id = request_id

\* C7: an edit decision carries the JSON value of the text the reviewer
\* confirmed in the panel, and the directive of a request resolved by an edit
\* decision executes the decision's arguments.
C7_EditedArgsExecuted ==
  [][/\ (Sends /\ Sent.decision.type = "edit")
          => /\ isEditing
             /\ JSONParse(editedArgs).ok
             /\ Sent.request_id = uiState.request.request_id
             /\ Sent.decision.edited_action.args = JSONParse(editedArgs).value
      /\ \A j \in 1..Len(resolutions') :
           (resolutions'[j].by = "decision" /\ resolutions'[j].decision.type = "edit")
             => calls'[CallOf(resolutions'[j].request_id)].directive
                  = Execute(resolutions'[j].decision.edited_action.args)
    ]_vars

\* C7 witness: the reviewer's revised arguments, typed into the panel, are the
\* ones executed, and they differ from the call's own.
C7_Witness ==
  /\ Len(calls) >= 1
  /\ calls[1].tool_args = OriginalArgs
  /\ calls[1].directive = Execute(RevisedArgs)
  /\ resolutions[1].decision = EditDecision(calls[1].tool_name, RevisedArgs)
  /\ JSONParse(editedArgs).value = RevisedArgs

\* C8: the step in which a Reject decision resolves a pending request hands
\* the call an abort directive with the submitted reason, appends a denial
\* tool-result with that reason to the agent's context, removes the request_id
\* from the pending table and leaves the session running.
C8_RejectDeniesAndContinues ==
  [][(Len(resolutions') = Len(resolutions) + 1
        /\ resolutions'[Len(resolutions')].by = "decision"
        /\ resolutions'[Len(resolutions')].decision.type = "reject")
       => LET r == resolutions'[Len(resolutions')] IN
          /\ IsOpen(r.request_id)
          /\ \A e \in pending' : e.request.request_id # r.request_id
          /\ calls'[CallOf(r.request_id)].directive = Abort(r.decision.reason)
          /\ calls'[CallOf(r.request_id)].status = "returned"
          /\ context' = Append(context, [kind |-> "denied", request_id |-> r.request_id,
                                         reason |-> r.decision.reason])
          /\ sessionStatus = "running"
          /\ sessionStatus' = "running"
    ]_vars

\* C8 witness: the panel's rejection was fed back as a denial, and the agent
\* went on to propose its next call.
C8_Witness ==
  /\ Len(calls) = 2
  /\ calls[1].directive = Abort("User rejected")
  /\ resolutions[1].by = "decision"
  /\ context[1] = [kind |-> "denied", request_id |-> 1, reason |-> "User rejected"]
  /\ ~IsOpen(1)
  /\ sessionStatus = "running"

\* C10: confirming an edit whose text is not valid JSON transmits nothing and
\* leaves uiState (awaiting_approval with the same request), the three
\* highlight sets, the edit mode and the text as they were.
C10_InvalidEditStaysLocal ==
  [][(Rendered /\ canEdit /\ isEditing /\ ~JSONParse(editedArgs).ok /\ handleEdit)
       => /\ UNCHANGED <<c2s, uiState, highlightedDocumentIds, highlightedPages,
                         highlightedFilePaths, editedArgs>>
          /\ uiState'.type = "awaiting_approval"
          /\ isEditing'
    ]_vars

\* C10 witness: the alert for the cut-short text is up, the request and its
\* highlights are still presented, the editor is open and nothing was sent.
C10_Witness ==
  /\ alert = InvalidJson
  /\ ~JSONParse(editedArgs).ok
  /\ uiState.type = "awaiting_approval"
  /\ uiState.request.request_id = 1
  /\ highlightedDocumentIds = {"d1"}
  /\ isEditing
  /\ c2s = <<>>
  /\ resolutions = <<>>

\* request_id is filed in the pending table.
InPendingTable(request_id) == \E e \in pending : e.request.request_id = request_id

\* The Broker's state other than the outcome reported to the caller of resolve.
brokerState == <<pending, calls, resolutions, context, sessionStatus, s2c>>

\* The request_ids resolve may be called with: the issued ones and the next,
\* not yet issued.
RequestIds == 1..nextRequestId

\* decision is valid for the open request_id.
ValidFor(request_id, decision) ==
  /\ InPendingTable(request_id)
  /\ decision.type \in AllowedFor(calls[CallOf(request_id)].tool_name)

\* C4: the first valid decision for a request_id performs its Open -> Resolved
\* transition; after that every resolve for it changes nothing, its call keeps
\* the directive it was given, and it never has a second resolution.
C4_ResolveOnce ==
  [][\A request_id \in RequestIds :
       /\ \A decision \in OtherDecisions :
            (ValidFor(request_id, decision) /\ resolve(request_id, decision))
              => /\ resolutions' = Append(resolutions,
                      [request_id |-> request_id, by |-> "decision",
                       decision |-> decision])
                 /\ calls'[CallOf(request_id)].directive
                      = DirectiveFor(calls[CallOf(request_id)], decision)
                 /\ calls'[CallOf(request_id)].resumes = 1
       /\ ResolutionsOf(request_id) # {}
            => /\ \A decision \in OtherDecisions :
                    resolve(request_id, decision) => UNCHANGED brokerState
               /\ calls'[CallOf(request_id)] = calls[CallOf(request_id)]
               /\ ResolutionsOf(request_id)' = ResolutionsOf(request_id)
               /\ \A e \in pending' : e.request.request_id # request_id
       /\ Cardinality(ResolutionsOf(request_id)') <= 1
    ]_vars

\* C4 witness: request 1 was approved, and a later decision for it was turned
\* away without touching the directive.
C4_Witness ==
  /\ Len(calls) >= 1
  /\ resolutions # <<>>
  /\ resolutions[1] = [request_id |-> 1, by |-> "decision", decision |-> ApproveDecision]
  /\ resolveResult = Result(1, "unknown_request")
  /\ calls[1].directive = Execute(OriginalArgs)
  /\ calls[1].resumes = 1

\* C5: resolve for a request_id that is not in the pending table reports a
\* protocol error and changes nothing: the table, the calls (none resumed, no
\* directive), the resolutions, the agent's context and the session are as
\* before.
C5_UnknownRequestDiscarded ==
  [][\A request_id \in RequestIds, decision \in OtherDecisions :
       (~InPendingTable(request_id) /\ resolve(request_id, decision))
         => /\ resolveResult' = Result(request_id, "unknown_request")
            /\ UNCHANGED brokerState
    ]_vars

\* C5 witness: a decision for a request_id that was never issued was discarded
\* while request 1 was open, and request 1 is still open and suspended.
C5_Witness ==
  /\ resolveResult = Result(2, "unknown_request")
  /\ nextRequestId = 2
  /\ InPendingTable(1)
  /\ calls[1].status = "suspended"

\* C6: resolve for an open request with a variant outside its
\* allowed_decisions reports a protocol error and leaves the entry in the
\* table and its call suspended without a directive; an entry that refused a
\* decision is still resolved by a later valid one.
C6_DisallowedLeavesOpen ==
  [][\A request_id \in RequestIds, decision \in OtherDecisions :
       LET i == CallOf(request_id) IN
       /\ (InPendingTable(request_id) /\ ~ValidFor(request_id, decision)
             /\ resolve(request_id, decision))
            => /\ resolveResult' = Result(request_id, "disallowed_decision")
               /\ pending' = pending
               /\ resolutions' = resolutions
               /\ context' = context
               /\ calls'[i].status = "suspended"
               /\ calls'[i].directive = NoDirective
               /\ calls'[i].resumes = 0
       /\ (ValidFor(request_id, decision) /\ calls[i].refused
             /\ resolve(request_id, decision))
            => /\ resolveResult' = Result(request_id, "resolved")
               /\ calls'[i].status = "returned"
               /\ calls'[i].directive = DirectiveFor(calls[i], decision)
               /\ \A e \in pending' : e.request.request_id # request_id
    ]_vars

\* C6 witness: request 1 allows rejection only; an approval was refused for
\* it, and the rejection that followed resolved it.
C6_Witness ==
  /\ Len(calls) >= 1
  /\ policy["get_documents"] = {"reject"}
  /\ calls[1].tool_name = "get_documents"
  /\ calls[1].refused
  /\ calls[1].directive = Abort("User rejected")
  /\ resolutions[1].by = "decision"

\* What holds of every gated call: suspended exactly while its request is in
\* the table and unresolved, returned exactly after one resolution and one
\* resumption.
C9_CallState ==
  \A i \in 1..Len(calls) :
    calls[i].request_id # 0
      => /\ calls[i].resumes <= 1
         /\ calls[i].status = "suspended" <=> InPendingTable(calls[i].request_id)
         /\ calls[i].status = "suspended"
              => calls[i].resumes = 0 /\ ResolutionsOf(calls[i].request_id) = {}
         /\ calls[i].status = "returned"
              => /\ calls[i].resumes = 1
                 /\ Cardinality(ResolutionsOf(calls[i].request_id)) = 1

\* C9: a suspended call leaves propose only in the step that resolves its own
\* request_id, by a valid decision addressed to that request_id or by expiry;
\* that step removes its entry from the table and resumes it once, and no call
\* is ever resumed twice.
C9_ResumedOnceByOwnRequest ==
  [][/\ C9_CallState'
     /\ \A i \in 1..Len(calls) :
          (calls[i].status = "suspended" /\ calls'[i] # calls[i]
             /\ calls'[i].status # "suspended")
            => LET r == resolutions'[Len(resolutions')] IN
               /\ Len(resolutions') = Len(resolutions) + 1
               /\ r.request_id = calls[i].request_id
               /\ r.by = "decision"
                    => /\ resolveResult' = Result(calls[i].request_id, "resolved")
                       /\ r.decision.type \in AllowedFor(calls[i].tool_name)
               /\ calls'[i].resumes = 1
               /\ calls'[i].directive = DirectiveFor(calls[i], r.decision)
               /\ \A e \in pending' : e.request.request_id # calls[i].request_id
    ]_vars

\* C9 witness: the first call was resumed once by its own decision; a late
\* decision for request 1 then arrived while the second call was suspended,
\* and the second call is suspended still.
C9_Witness ==
  /\ Len(calls) = 2
  /\ calls[1].status = "returned" /\ calls[1].resumes = 1
  /\ calls[2].status = "suspended" /\ calls[2].resumes = 0
  /\ InPendingTable(2)
  /\ resolveResult = Result(1, "unknown_request")

\* A step in which submitDecision passed its guard and sent.
Submits == Len(submitted') = Len(submitted) + 1

\* A step in which ws.onmessage handled an envelope.
Receives == Len(received') = Len(received) + 1

\* The client has submitted a decision and no envelope has arrived since.
AfterSubmission ==
  /\ submitted # <<>>
  /\ submitted[Len(submitted)].after = Len(received)

\* What a submission leaves: agent_running and an empty projection.
Cleared ==
  /\ uiState = Ui("agent_running")
  /\ highlightedDocumentIds = {}
  /\ highlightedPages = NoPages
  /\ highlightedFilePaths = {}

\* C11 as claimed: a submission leaves agent_running and no highlights, and
\* after it uiState stays agent_running in every step that is not the arrival
\* of an envelope.
C11_RunningUntilNextMessage ==
  [][/\ Submits => Cleared'
     /\ (AfterSubmission /\ uiState.type = "agent_running" /\ ~Receives)
          => uiState'.type = "agent_running"
    ]_vars

\* C11 amended: a submission leaves agent_running and no highlights, and
\* after it uiState stays agent_running in every step that is neither the
\* arrival of an envelope nor the error event of a socket, which puts the
\* client in the error state 'Connection error'.
C11_RunningUntilMessageOrError ==
  [][/\ Submits => Cleared'
     /\ (AfterSubmission /\ uiState.type = "agent_running" /\ ~Receives)
          => \/ uiState' = uiState
             \/ /\ uiState' = [type |-> "error", request |-> NoRequest,
                               message |-> "Connection error"]
                /\ \E i \in 1..Len(sockets) : sockets[i] # "closing" /\ sockets'[i] = "closing"
     /\ (AfterSubmission /\ ~Receives)
          => UNCHANGED <<highlightedDocumentIds, highlightedPages, highlightedFilePaths>>
    ]_vars

\* C11 witness: the request with document and page highlights was answered
\* on an open socket; the client is running, its projection empty.
C11_Witness ==
  /\ AfterSubmission
  /\ received[Len(received)] = [type |-> "approval_request", request_id |-> 1]
  /\ submitted[Len(submitted)].envelope.decision.type = "edit"
  /\ c2s # <<>>
  /\ Cleared

\* The approval_request envelopes among the first k received.
RequestsAmong(k) == Cardinality({j \in 1..k : received[j].type = "approval_request"})

\* C12: every submission that passed the guard answers an approval_request
\* of its own: the first comes after a request, each later one after a
\* request that arrived since the one before, and no more envelopes are on the
\* wire than requests were received.
C12_OneDecisionPerRequest ==
  /\ \A k \in 1..Len(submitted) :
       /\ RequestsAmong(submitted[k].after) >= 1
       /\ k > 1 => RequestsAmong(submitted[k - 1].after) < RequestsAmong(submitted[k].after)
  /\ Len(submitted) <= RequestsAmong(Len(received))
  /\ Len(c2s) <= Len(submitted)

\* C12 witness: one decision is on the wire, the socket is open, and a second
\* call of submitDecision was turned away at the guard.
C12_Witness ==
  /\ Len(c2s) = 1
  /\ Len(submitted) = 1
  /\ consoleError = NotAwaiting
  /\ ws # 0
  /\ sockets[ws] = "open"
  /\ uiState.type = "agent_running"

\* What a request lists: the documents of its document_highlights, the
\* documents it names at all, the pages it lists for a document, its files.
DocIdsOf(request) == {dh.doc_id : dh \in Range(request.document_highlights)}

DocsNamedIn(request) ==
  DocIdsOf(request) \cup {ph.doc_id : ph \in Range(request.page_highlights)}

PagesListed(request, docId) ==
  UNION ({Range(dh.legally_significant_pages) :
            dh \in {h \in Range(request.document_highlights) : h.doc_id = docId}}
         \cup {Range(ph.page_nums) :
                 ph \in {h \in Range(request.page_highlights) : h.doc_id = docId}})

FilePathsOf(request) == {fh.file_path : fh \in Range(request.file_highlights)}

\* C13: while a request is presented, the highlighted documents and files are
\* those of its document_highlights and file_highlights, and the highlighted
\* pages of every document it names are all the pages it lists for that
\* document.
C13_HighlightsAreThoseListed ==
  uiState.type = "awaiting_approval"
    => /\ highlightedDocumentIds = DocIdsOf(uiState.request)
       /\ highlightedFilePaths = FilePathsOf(uiState.request)
       /\ DOMAIN highlightedPages = DocsNamedIn(uiState.request)
       /\ \A docId \in DOMAIN highlightedPages :
            highlightedPages[docId] = PagesListed(uiState.request, docId)

\* The request_id of the approval_request received last.
LastRequestId ==
  LET requests == {j \in 1..Len(received) : received[j].type = "approval_request"}
  IN IF requests = {} THEN 0
     ELSE received[CHOOSE j \in requests : \A k \in requests : k <= j].request_id

\* C14: an envelope the client puts on the wire is an approval_decision that
\* names the request the client is presenting, which is the approval_request
\* it received last.
C14_DecisionNamesPresentedRequest ==
  [][Sends => /\ Sent.type = "approval_decision"
              /\ uiState.type = "awaiting_approval"
              /\ Sent.request_id = uiState.request.request_id
              /\ LastRequestId # 0
              /\ Sent.request_id = LastRequestId
    ]_vars

\* C14 witness: request 1 was superseded by request 2 before it was answered,
\* and the one decision sent names request 2.
C14_Witness ==
  /\ Len(received) = 2
  /\ received[1] = [type |-> "approval_request", request_id |-> 1]
  /\ received[2] = [type |-> "approval_request", request_id |-> 2]
  /\ Len(c2s) = 1
  /\ c2s[1].type = "approval_decision"
  /\ c2s[1].request_id = 2

\* The client was handed the request, and has submitted no decision for it.
Unanswered(request_id) ==
  /\ \E j \in 1..Len(received) :
       received[j] = [type |-> "approval_request", request_id |-> request_id]
  /\ \A k \in 1..Len(submitted) : submitted[k].envelope.request_id # request_id

\* The store's socket is open, and an earlier socket of the session has
\* closed.
Reconnected ==
  /\ ws # 0
  /\ sockets[ws] = "open"
  /\ \E i \in 1..Len(sockets) : i < ws /\ sockets[i] = "closed"

\* C15: a request that was handed to the client and not answered before the
\* socket closed is, once the client is connected to the session again, open
\* at the Broker and awaiting a decision at the client, which can submit one.
C15_RequestSurvivesReconnect ==
  \A request_id \in 1..nextRequestId :
    (InPendingTable(request_id) /\ Unanswered(request_id) /\ Reconnected)
      => /\ uiState.type = "awaiting_approval"
         /\ uiState.request.request_id = request_id
         /\ CanSubmit

\* C16: the step that tears the session down resumes every suspended call
\* once, with a rejection directive, logs a rejection for every open request
\* and empties the pending table; in a closed session no call is suspended.
C16_TeardownRejectsAll ==
  [][/\ (sessionStatus = "running" /\ sessionStatus' = "closed")
          => /\ pending' = {}
             /\ \A i \in 1..Len(calls) :
                  calls[i].status = "suspended"
                    => /\ calls'[i].status = "returned"
                       /\ calls'[i].directive.kind = "abort"
                       /\ calls'[i].resumes = 1
                       /\ \E j \in 1..Len(resolutions') :
                            /\ j > Len(resolutions)
                            /\ resolutions'[j].request_id = calls[i].request_id
                            /\ resolutions'[j].decision.type = "reject"
                       /\ \E j \in 1..Len(context') :
                            /\ j > Len(context)
                            /\ context'[j].kind = "denied"
                            /\ context'[j].request_id = calls[i].request_id
             /\ \A i \in 1..Len(calls) :
                  calls[i].status = "returned" => calls'[i] = calls[i]
     /\ sessionStatus' = "closed"
          => /\ pending' = {}
             /\ \A i \in 1..Len(calls') : calls'[i].status = "returned"
    ]_vars

\* C16 witness: two requests were open when the session was torn down, and
\* both calls came back rejected.
C16_Witness ==
  /\ sessionStatus = "closed"
  /\ Len(calls) = 2
  /\ pending = {}
  /\ \A i \in 1..2 : /\ calls[i].directive = Abort(TeardownReason)
                     /\ calls[i].resumes = 1
  /\ Len(resolutions) = 2
  /\ resolutions[1].by = "teardown" /\ resolutions[2].by = "teardown"

\* The request_ids issued so far.
IssuedIds == {calls[i].request_id : i \in {c \in 1..Len(calls) : calls[c].request_id # 0}}

\* C19: no two pending entries share a request_id, no two calls were issued
\* the same request_id, every issued request_id lies below the next one to be
\* minted, and a step that issues a request_id issues one that was never
\* issued before.
C19_FreshRequestIds ==
  [][/\ \A e1, e2 \in pending' :
          e1.request.request_id = e2.request.request_id => e1 = e2
     /\ \A i, j \in 1..Len(calls') :
          (calls'[i].request_id # 0 /\ calls'[i].request_id = calls'[j].request_id)
            => i = j
     /\ \A e \in pending' : calls'[e.resolver].request_id = e.request.request_id
     /\ Len(calls') = Len(calls) + 1
          => LET call == calls'[Len(calls')] IN
             call.request_id # 0
               => /\ call.request_id \notin IssuedIds
                  /\ call.request_id < nextRequestId'
                  /\ \E e \in pending' \ pending : e.request.request_id = call.request_id
    ]_vars

\* C19 witness: the same call was proposed twice with the same arguments, and
\* both requests are open under different request_ids.
C19_Witness ==
  /\ Len(calls) = 2
  /\ calls[1].tool_name = calls[2].tool_name
  /\ calls[1].tool_args = calls[2].tool_args
  /\ calls[1].request_id # calls[2].request_id
  /\ Cardinality(pending) = 2
  /\ InPendingTable(calls[1].request_id)
  /\ InPendingTable(calls[2].request_id)

\* C17: an agent_status envelope with status completed, failed or running
\* makes uiState completed, error with the envelope's details, or
\* agent_running; with any other status the store is left as it was.
C17_AgentStatusSetsUiState ==
  [][\A message \in {m \in ServerMessages : m.type = "agent_status"} :
       (Receives /\ onmessage(message))
         => /\ message.status = "completed" => uiState' = Ui("completed")
            /\ message.status = "failed"
                 => uiState' = [type |-> "error", request |-> NoRequest,
                                message |-> message.details]
            /\ message.status = "running" => uiState' = Ui("agent_running")
            /\ message.status \notin {"completed", "failed", "running"}
                 => UNCHANGED <<storeVars, viewVars>>
    ]_vars

\* C17 witness: a status the client does not know arrived while a request
\* was presented, and the request is presented still.
C17_Witness ==
  /\ Len(received) = 2
  /\ received[1].type = "approval_request"
  /\ received[2].type = "agent_status"
  /\ uiState.type = "awaiting_approval"
  /\ highlightedFilePaths = {"report.md"}

\* C18: the widths of the left, center and right panel are 20/60/20 with
\* nothing selected, 40/40/20 with a document only, 20/40/40 with a file only
\* and 40/20/40 with both, and they add up to 100.
C18_PanelWidths ==
  LET document == selectedDocumentId # "null"
      file == selectedFilePath # "null"
      widths == <<leftWidth, centerWidth, rightWidth>>
  IN /\ (~document /\ ~file) => widths = <<20, 60, 20>>
     /\ (document /\ ~file) => widths = <<40, 40, 20>>
     /\ (~document /\ file) => widths = <<20, 40, 40>>
     /\ (document /\ file) => widths = <<40, 20, 40>>
     /\ leftWidth + centerWidth + rightWidth = 100

\* C18 witness: a document and a file are selected, the document's detail
\* has been fetched, and the center panel is down to 20.
C18_Witness ==
  /\ selectedDocumentId = "d1"
  /\ fetches = {}
  /\ selectedFilePath = "notes.md"
  /\ Widths = Layout(40, 20, 40)

\* C20: the step that handles an approval_request leaves highlights of the
\* new request only: its documents, its files, and for the documents it
\* names no page it does not list.
C20_ProjectionOfNewRequestOnly ==
  [][(Receives /\ received'[Len(received')].type = "approval_request")
       => LET request == uiState'.request IN
          /\ uiState'.type = "awaiting_approval"
          /\ highlightedDocumentIds' = DocIdsOf(request)
          /\ highlightedFilePaths' = FilePathsOf(request)
          /\ DOMAIN highlightedPages' = DocsNamedIn(request)
          /\ \A docId \in DOMAIN highlightedPages' :
               highlightedPages'[docId] \subseteq PagesListed(request, docId)
    ]_vars

\* C20 witness: the file request arrived while the document request was
\* presented and unanswered; only the file is highlighted.
C20_Witness ==
  /\ Len(received) = 2
  /\ received[1] = [type |-> "approval_request", request_id |-> 1]
  /\ received[2] = [type |-> "approval_request", request_id |-> 2]
  /\ submitted = <<>>
  /\ uiState.type = "awaiting_approval"
  /\ uiState.request.tool_name = "write_file"
  /\ highlightedDocumentIds = {}
  /\ highlightedPages = NoPages
  /\ highlightedFilePaths = {"report.md"}

(***************************************************************************)
(* C21  Highlights outside awaiting_approval                               *)
(***************************************************************************)
\* C21: whenever uiState is not awaiting_approval, the highlighted documents,
\* the highlighted pages and the highlighted files are all empty.
C21_NoHighlightsUnlessAwaiting ==
  uiState.type # "awaiting_approval" =>
    /\ highlightedDocumentIds = {}
    /\ highlightedPages = NoPages
    /\ highlightedFilePaths = {}


(***************************************************************************)
(* C22  The edit buffer and the request it was opened on                   *)
(***************************************************************************)
\* C22: an edit decision the client transmits was confirmed in an editor that
\* was opened on the request whose request_id and tool_name the decision
\* carries.
C22_EditBufferOfSameRequest ==
  [][(Sends /\ Sent.decision.type = "edit") =>
       /\ editOpened.request_id = Sent.request_id
       /\ editOpened.tool_name = Sent.decision.edited_action.name]_vars


(***************************************************************************)
(* C23  A received request stays presented until it is decided             *)
(***************************************************************************)
\* C23: a request the client presents stays presented, uiState being
\* awaiting_approval with that request, until the user submits a decision:
\* no incoming message and no connection event removes it undecided.
C23_PresentedUntilDecided ==
  [][(uiState.type = "awaiting_approval" /\ uiState' # uiState) => Submits]_vars


(***************************************************************************)
(* C24  submitDecision behind its guard                                    *)
(***************************************************************************)
\* A step of a panel handler that calls submitDecision.
CallsSubmitDecision ==
  \/ handleApprove
  \/ handleReject
  \/ RepeatSubmit
  \/ (isEditing /\ JSONParse(editedArgs).ok /\ handleEdit)

\* C24: submitDecision called while ws is null or while uiState is not
\* awaiting_approval sends nothing and leaves uiState, the request in it and
\* the three highlight sets as they were.
C24_GuardedSubmitChangesNothing ==
  [][((ws = 0 \/ uiState.type # "awaiting_approval") /\ CallsSubmitDecision) =>
       /\ c2s' = c2s
       /\ submitted' = submitted
       /\ uiState' = uiState
       /\ highlightedDocumentIds' = highlightedDocumentIds
       /\ highlightedPages' = highlightedPages
       /\ highlightedFilePaths' = highlightedFilePaths]_vars

\* The user answered a request shown after the socket had closed: the call
\* was refused, and the request and its highlights are still there.
C24_Witness ==
  /\ ws = 0
  /\ consoleError = NotAwaiting
  /\ uiState.type = "awaiting_approval"
  /\ uiState.request.request_id = 1
  /\ highlightedDocumentIds = {"d1"}
  /\ submitted = <<>>


(***************************************************************************)
(* C25  Automatic selection of a document                                  *)
(***************************************************************************)
\* C25: handling an approval_request changes selectedDocumentId only when no
\* document is selected and the request has a document highlight, and then
\* to the doc_id of the first one; a selection there is, is kept.
C25_AutoSelectOnlyWhenNoneSelected ==
  [][(Receives /\ received'[Len(received')].type = "approval_request") =>
       LET highlights == uiState'.request.document_highlights
       IN selectedDocumentId' =
            IF selectedDocumentId = "null" /\ highlights # <<>>
            THEN highlights[1].doc_id
            ELSE selectedDocumentId]_vars

\* The first request selected d1 (nothing was ever fetched); the second,
\* which highlights d2 only, left d1 selected.
C25_Witness ==
  /\ received = <<[type |-> "approval_request", request_id |-> 1],
                  [type |-> "approval_request", request_id |-> 2]>>
  /\ highlightedDocumentIds = {"d2"}
  /\ selectedDocumentId = "d1"
  /\ selectedDocumentDetail = "null"
  /\ fetches = {}


(***************************************************************************)
(* C26  todos_update, workflow_event and unknown envelopes                 *)
(***************************************************************************)
\* C26: a todos_update, a workflow_event and an envelope of an unknown type
\* leave uiState and the three highlight sets as they were; a todos_update
\* replaces the todo list by the one it carries; a workflow_event appends
\* exactly one event, its own, behind the earlier ones, which keep their
\* order.
C26_FeedLeavesProjection ==
  [][\A message \in FeedMessages :
       onmessage(message) =>
         /\ uiState' = uiState
         /\ highlightedDocumentIds' = highlightedDocumentIds
         /\ highlightedPages' = highlightedPages
         /\ highlightedFilePaths' = highlightedFilePaths
         /\ message.type = "todos_update" => todos' = message.data.todos
         /\ message.type # "todos_update" => todos' = todos
         /\ message.type = "workflow_event" =>
              /\ Len(workflowEvents') = Len(workflowEvents) + 1
              /\ SubSeq(workflowEvents', 1, Len(workflowEvents)) = workflowEvents
              /\ workflowEvents'[Len(workflowEvents')].event_type = message.data.event_type
              /\ workflowEvents'[Len(workflowEvents')].data = message.data.data
         /\ message.type # "workflow_event" => workflowEvents' = workflowEvents]_vars

\* Two workflow events arrived behind a request: both are listed, in the
\* order of arrival, and the request is still presented with its highlights.
C26_Witness ==
  /\ Len(received) = 3
  /\ received[1] = [type |-> "approval_request", request_id |-> 1]
  /\ Len(workflowEvents) = 2
  /\ workflowEvents[1].event_type = "tool_call"
  /\ workflowEvents[2].event_type = "tool_result"
  /\ uiState.type = "awaiting_approval"
  /\ uiState.request.request_id = 1
  /\ highlightedDocumentIds = {"d1"}


(***************************************************************************)
(* C27  The current page and the loaded detail                             *)
(***************************************************************************)
\* C27: whenever a document detail is loaded, currentPdfPage is between 1
\* and the page_count of that detail.
C27_PageWithinDetail ==
  selectedDocumentDetail # "null" =>
    currentPdfPage \in 1..page_count[selectedDocumentDetail]

(***************************************************************************)
(* C28  The selected document and the loaded detail                        *)
(***************************************************************************)
\* C28: once no detail fetch is outstanding, a selected document has its own
\* detail loaded.
C28_DetailOfSelectedDocument ==
  (fetches = {} /\ selectedDocumentId # "null") =>
    selectedDocumentDetail = selectedDocumentId


(***************************************************************************)
(* C29  The store's socket and the events of older sockets                 *)
(***************************************************************************)
\* C29: the store's ws stays the socket the last connect created until that
\* socket closes or disconnect is called, and an open, error or close event
\* of any other socket leaves ws and uiState as they were.
C29_SocketOfLastConnect ==
  [][ws # 0 =>
       /\ ws' # ws =>
            \/ Len(sockets') = Len(sockets) + 1
            \/ sessionId' = "null"
            \/ sockets[ws] # "closed" /\ sockets'[ws] = "closed"
       /\ \A i \in 1..Len(sockets) :
            (i # ws /\ sockets'[i] # sockets[i]) => (ws' = ws /\ uiState' = uiState)]_vars

====
